---- MODULE Spec2Model ----
(***************************************************************************)
(* Model of src/App.js: the window.ethereum compatibility shim             *)
(* (setupMetaMaskStub) that runs at module load, and the App component's   *)
(* fullscreen-image selection (useState cell, tile click handlers, overlay *)
(* click handlers, image onError handlers).                                *)
(*                                                                         *)
(* JavaScript values are records: null is [type |-> "null"], undefined is  *)
(* [type |-> "undefined"], an array is [type |-> "array", elems |-> seq].  *)
(* A DOM <img>'s current source is [kind |-> "file", path |-> p] or, after *)
(* the onError substitution, [kind |-> "svg", viewBox |-> v, text |-> s]:  *)
(* the data: URI is kept as the SVG document it decodes to.                *)
(***************************************************************************)
EXTENDS Integers, Sequences, FiniteSets, TLC

VARIABLES
    loaded,           \* the module body (line 56) has run and App is mounted
    env,              \* the browser environment the module is loaded into
    ethereum,         \* the global slot window.ethereum
    console,          \* what setupMetaMaskStub logged while installing
    setupRaised,      \* whether setupMetaMaskStub raised to the module body
    lastCall,         \* the last invocation of window.ethereum.request
    fullscreenImage,  \* useState cell of App (line 67)
    imgSrc,           \* per tile: the current src of the tile's <img> element
    broken,           \* the tiles whose image path fails to resolve
    lastEvent         \* the last click event dispatched and what it did

shimVars == <<env, ethereum, console, setupRaised, lastCall>>
galleryVars == <<fullscreenImage, imgSrc, broken, lastEvent>>
vars == <<loaded, env, ethereum, console, setupRaised, lastCall,
          fullscreenImage, imgSrc, broken, lastEvent>>

\* Bound: how many image paths may fail to resolve in one page session.
MaxBroken == 2

-----------------------------------------------------------------------------
(* JavaScript values *)

JSNull == [type |-> "null"]
Undefined == [type |-> "undefined"]
EmptyArray == [type |-> "array", elems |-> <<>>]

\* `v && ...` / `!v` for the values the model uses: null and undefined are falsy,
\* every object and array is truthy.
Truthy(v) == v # JSNull /\ v # Undefined

-----------------------------------------------------------------------------
(* The gallery catalogue *)

items ==
    << [id |-> 1, caption |-> "porsche 991 poster", image |-> "images/porsche.png"],
       [id |-> 2, caption |-> "porsche 991 poster", image |-> "images/porsche 2.jpg"] >>

CatFiles == << "1.png", "2.png", "3.png", "4.png", "5.png" >>

ChaiFiles == << "w1.png", "w2.png", "w3.png", "w4.png", "w5.png", "w6.png", "w7.png" >>

HarvestFiles ==
    << "Screenshot 2025-08-15 151613.png",
       "Screenshot 2025-08-15 151629.png",
       "Screenshot 2025-08-15 151703.png" >>

ToolFiles == << "download  (2).png", "download (3).jpg" >>

Groups == {"items", "cat", "chai", "harvest", "tools"}

\* The array each group maps over; idx is the 0-based index .map passes.
GroupList(g) ==
    CASE g = "items" -> items
      [] g = "cat" -> CatFiles
      [] g = "chai" -> ChaiFiles
      [] g = "harvest" -> HarvestFiles
      [] g = "tools" -> ToolFiles

Tiles ==
    UNION { { [group |-> g, idx |-> i] : i \in 0..(Len(GroupList(g)) - 1) } : g \in Groups }

Entry(t) == GroupList(t.group)[t.idx + 1]

\* The src prop of the tile's <img>.
TileSrc(t) ==
    CASE t.group = "items" -> Entry(t).image
      [] t.group = "cat" -> "images/Cat in a Box/" \o Entry(t)
      [] t.group = "chai" -> "images/Chai Mahal/" \o Entry(t)
      [] t.group = "harvest" -> "images/Harvest Connect/" \o Entry(t)
      [] t.group = "tools" -> "images/tools/" \o Entry(t)

\* The alt prop of the tile's <img>.
TileAlt(t) ==
    CASE t.group = "items" -> Entry(t).caption
      [] t.group = "cat" -> "Cat in a Box " \o ToString(t.idx + 1)
      [] t.group = "chai" -> "Chai Mahal " \o ToString(t.idx + 1)
      [] t.group = "harvest" -> "Harvest Connect " \o ToString(t.idx + 1)
      [] t.group = "tools" -> "Tool " \o ToString(t.idx + 1)

\* The caption declared for the tile's item.
TileCaption(t) ==
    CASE t.group = "items" -> Entry(t).caption
      [] t.group = "cat" -> "Cat in a Box - Design " \o ToString(t.idx + 1)
      [] t.group = "chai" -> "Chai Mahal - Design " \o ToString(t.idx + 1)
      [] t.group = "harvest" -> "Harvest Connect - Screen " \o ToString(t.idx + 1)
      [] t.group = "tools" -> "tool " \o ToString(t.idx + 1)

\* Mutant of TileClickValue: the captions of the inline tiles number from idx, not
\* from idx + 1.
TileClickValueOffByOne(t) ==
    CASE t.group = "items" -> Entry(t)
      [] t.group = "cat" ->
            [image |-> "images/Cat in a Box/" \o Entry(t),
             caption |-> "Cat in a Box - Design " \o ToString(t.idx)]
      [] t.group = "chai" ->
            [image |-> "images/Chai Mahal/" \o Entry(t),
             caption |-> "Chai Mahal - Design " \o ToString(t.idx)]
      [] t.group = "harvest" ->
            [image |-> "images/Harvest Connect/" \o Entry(t),
             caption |-> "Harvest Connect - Screen " \o ToString(t.idx)]
      [] t.group = "tools" ->
            [image |-> "images/tools/" \o Entry(t),
             caption |-> "tool " \o ToString(t.idx)]

\* The argument the tile's onClick passes to setFullscreenImage: the catalogue
\* item itself for a Placeholder tile, a fresh {image, caption} literal otherwise.
TileClickValue(t) ==
    CASE t.group = "items" -> Entry(t)
      [] t.group = "cat" ->
            [image |-> "images/Cat in a Box/" \o Entry(t),
             caption |-> "Cat in a Box - Design " \o ToString(t.idx + 1)]
      [] t.group = "chai" ->
            [image |-> "images/Chai Mahal/" \o Entry(t),
             caption |-> "Chai Mahal - Design " \o ToString(t.idx + 1)]
      [] t.group = "harvest" ->
            [image |-> "images/Harvest Connect/" \o Entry(t),
             caption |-> "Harvest Connect - Screen " \o ToString(t.idx + 1)]
      [] t.group = "tools" ->
            [image |-> "images/tools/" \o Entry(t),
             caption |-> "tool " \o ToString(t.idx + 1)]

\* The text the onError handler writes into the generated SVG.
PlaceholderText(t) ==
    CASE t.group = "items" -> "Image " \o ToString(Entry(t).id)
      [] t.group = "cat" -> "Cat in a Box"
      [] t.group = "chai" -> "Chai Mahal"
      [] t.group = "harvest" -> "Harvest Connect"
      [] t.group = "tools" -> "Tool"

\* The viewBox of the generated SVG.
PlaceholderViewBox(t) == IF t.group = "tools" THEN "0 0 100 100" ELSE "0 0 600 800"

FileSrc(t) == [kind |-> "file", path |-> TileSrc(t)]

PlaceholderSrc(t) ==
    [kind |-> "svg", viewBox |-> PlaceholderViewBox(t), text |-> PlaceholderText(t)]

\* What App's re-render does to the tiles' <img> elements. Placeholder is declared
\* inside App, so each render of App yields a new component type and React
\* remounts every Placeholder tile: its <img> is created anew with src = item.image.
\* The inline tiles keep their DOM nodes, and with them an src set by onError.
Remount(src) ==
    [t \in Tiles |-> IF t.group = "items" THEN FileSrc(t) ELSE src[t]]

\* Mutant of OnErrorSrc: the handler replaces the source of every image of the
\* tile's group instead of e.target's alone.
OnErrorSrcGroup(src, t) ==
    [u \in Tiles |-> IF u.group = t.group THEN PlaceholderSrc(u) ELSE src[u]]

\* The onError handler of tile t's <img>: e.target.src = data:image/svg+xml;...
OnErrorSrc(src, t) == [src EXCEPT ![t] = PlaceholderSrc(t)]

-----------------------------------------------------------------------------
(* The DOM and click dispatch *)

Root == [el |-> "main"]
Backdrop == [el |-> "backdrop"]
Inner == [el |-> "inner"]
CloseButton == [el |-> "closeButton"]
OverlayImage == [el |-> "image"]
CaptionDiv == [el |-> "captionDiv"]
CaptionP == [el |-> "captionP"]

OverlayElements == {Backdrop, Inner, CloseButton, OverlayImage, CaptionDiv, CaptionP}

TileDiv(t) == [el |-> "tile", tile |-> t]

\* A tile's elements as click targets: the clickable <div> itself and the deepest
\* element inside it, the "Click to view" label of the hover layer (the hover
\* layer is absolute inset-0 above the <img>, so the pointer meets it first).
\* Every other element of a tile lies on the path between the two.
TileParts == {"tile", "tileHoverLabel"}

TileElements == { [el |-> p, tile |-> t] : p \in TileParts, t \in Tiles }

\* Any other element of the page (header, headings, mail link, footer).
PageOther == [el |-> "page"]

PageElements == TileElements \cup {PageOther}

\* Mutant of Parent: the close button is rendered beside the backdrop, not in it.
ParentButtonOutside(e) ==
    CASE e = Backdrop -> Root
      [] e = Inner -> Backdrop
      [] e \in {OverlayImage, CaptionDiv} -> Inner
      [] e = CaptionP -> CaptionDiv
      [] e.el = "tileHoverLabel" -> [el |-> "tile", tile |-> e.tile]
      [] OTHER -> Root

\* The parent in the rendered tree.
Parent(e) ==
    CASE e = Backdrop -> Root
      [] e = Inner -> Backdrop
      [] e \in {CloseButton, OverlayImage, CaptionDiv} -> Inner
      [] e = CaptionP -> CaptionDiv
      [] e.el = "tileHoverLabel" -> [el |-> "tileHover", tile |-> e.tile]
      [] e.el \in {"tileImg", "tileHover"} -> TileDiv(e.tile)
      [] OTHER -> Root

\* Mutant of onClick: the enlarged image's handler does not stop the propagation.
onClickNoStop(e) ==
    CASE e.el = "tile" -> [calls |-> TRUE, value |-> TileClickValue(e.tile), stops |-> FALSE]
      [] e \in {Backdrop, CloseButton} -> [calls |-> TRUE, value |-> JSNull, stops |-> FALSE]
      [] OTHER -> [calls |-> FALSE, value |-> JSNull, stops |-> FALSE]

\* Mutant of onClick: the dismiss handlers store an empty object, not null.
onClickDismissEmpty(e) ==
    CASE e.el = "tile" -> [calls |-> TRUE, value |-> TileClickValue(e.tile), stops |-> FALSE]
      [] e \in {Backdrop, CloseButton} ->
            [calls |-> TRUE, value |-> [type |-> "object"], stops |-> FALSE]
      [] e = OverlayImage -> [calls |-> FALSE, value |-> JSNull, stops |-> TRUE]
      [] OTHER -> [calls |-> FALSE, value |-> JSNull, stops |-> FALSE]

\* The onClick prop of an element: whether it calls setFullscreenImage and with
\* what, and whether it calls e.stopPropagation().
onClick(e) ==
    CASE e.el = "tile" -> [calls |-> TRUE, value |-> TileClickValue(e.tile), stops |-> FALSE]
      [] e \in {Backdrop, CloseButton} -> [calls |-> TRUE, value |-> JSNull, stops |-> FALSE]
      [] e = OverlayImage -> [calls |-> FALSE, value |-> JSNull, stops |-> TRUE]
      [] OTHER -> [calls |-> FALSE, value |-> JSNull, stops |-> FALSE]

HasOnClick(e) == e.el = "tile" \/ e \in {Backdrop, CloseButton, OverlayImage}

\* A click bubbles from its target to the root, running each onClick on the way,
\* until a handler stops the propagation. acc collects the handlers run and the
\* setFullscreenImage calls queued, in order.
RECURSIVE Bubble(_, _)
Bubble(e, acc) ==
    LET h == onClick(e)
        ran == IF HasOnClick(e) THEN Append(acc.handlers, e.el) ELSE acc.handlers
        upd == IF h.calls THEN Append(acc.updates, h.value) ELSE acc.updates
        next == [handlers |-> ran, updates |-> upd]
    IN  IF h.stops \/ e = Root THEN next ELSE Bubble(Parent(e), next)

Dispatch(target) == Bubble(target, [handlers |-> <<>>, updates |-> <<>>])

\* Mutant of Reduce: a selection, once made, is kept until it is dismissed
\* (setFullscreenImage(prev => prev || item)).
ReduceKeepFirst(state, updates) ==
    IF updates = <<>> THEN state
    ELSE IF updates[Len(updates)] # JSNull /\ state # JSNull THEN state
    ELSE updates[Len(updates)]

\* useState: the updates queued during one event are applied in order at the
\* render that follows; each replaces the state.
Reduce(state, updates) == IF updates = <<>> THEN state ELSE updates[Len(updates)]

\* App re-renders unless the new state is the same value (Object.is): every tile
\* click passes an object the state has not held, null is the same as null.
Rerenders(state, updates) ==
    updates # <<>> /\ (Reduce(state, updates) # JSNull \/ state # JSNull)

\* The elements in the document: the overlay is rendered only while the state is
\* truthy (fullscreenImage && ...).
Mounted(state) ==
    IF Truthy(state) THEN PageElements \cup OverlayElements ELSE PageElements

\* Mutant of HitTargets: the overlay does not cover the page.
HitTargetsUncovered(state) == Mounted(state)

\* The elements a pointer click can hit: the overlay is fixed inset-0 at z-50, so
\* while it is rendered it lies over every point of the viewport.
HitTargets(state) ==
    IF Truthy(state) THEN OverlayElements ELSE PageElements

-----------------------------------------------------------------------------
(* The provider shim *)

AccountsRequest == [type |-> "object", method |-> "eth_requestAccounts"]
ChainIdRequest == [type |-> "object", method |-> "eth_chainId"]
NoMethodRequest == [type |-> "object"]

\* The argument bundles a caller passes to request: none at all, the
\* account-request method, another method, an object without a method.
ArgBundles == {Undefined, AccountsRequest, ChainIdRequest, NoMethodRequest}

\* args && args.method === "eth_requestAccounts"
IsAccountsRequest(args) ==
    Truthy(args) /\ "method" \in DOMAIN args /\ args.method = "eth_requestAccounts"

\* The fallback both the stub and the wrapper's catch block return.
Fallback(args) == IF IsAccountsRequest(args) THEN EmptyArray ELSE JSNull

\* What a provider's own request does with an argument bundle.
ProviderOutcomes == {"returns", "throws", "rejects"}

Behaviours == [ArgBundles -> ProviderOutcomes]

AllReturn == [a \in ArgBundles |-> "returns"]

\* The value a provider's request resolves to when it succeeds.
ProviderValue(args) ==
    CASE args = AccountsRequest -> [type |-> "array", elems |-> << "0xA11CE" >>]
      [] args = ChainIdRequest -> [type |-> "string", val |-> "0x1"]
      [] OTHER -> Undefined

\* The environments a page can be loaded into:
\*   hasWindow  - a window global exists (false outside a browser);
\*   provider   - window.ethereum at load: "absent", an "object", or an accessor
\*                that "throws" when read;
\*   request    - the provider's request property: "none", a "function", or a
\*                truthy value that is "notFunction";
\*   writable   - whether the assignment the shim makes (to window.ethereum, or
\*                to the provider's request) succeeds; App.js is an ES module,
\*                strict code, so a failed assignment raises TypeError;
\*   behaviour  - what the provider's own request does per argument bundle.
MkEnv(w, p, r, wr, b) ==
    [hasWindow |-> w, provider |-> p, request |-> r, writable |-> wr, behaviour |-> b]

Envs ==
    {MkEnv(FALSE, "absent", "none", TRUE, AllReturn)}
    \cup {MkEnv(TRUE, "absent", "none", wr, AllReturn) : wr \in BOOLEAN}
    \cup {MkEnv(TRUE, "throws", "none", TRUE, AllReturn)}
    \cup {MkEnv(TRUE, "object", r, TRUE, AllReturn) : r \in {"none", "notFunction"}}
    \cup {MkEnv(TRUE, "object", "function", wr, b) : wr \in BOOLEAN, b \in Behaviours}

\* The environment the gallery is explored in: a browser without a provider.
GalleryEnv == MkEnv(TRUE, "absent", "none", TRUE, AllReturn)

ProviderObject(req) ==
    [type |-> "object", isMetaMask |-> TRUE, request |-> req,
     on |-> "native", removeListener |-> "native"]

\* The object literal the shim installs when no provider exists.
StubObject ==
    [type |-> "object", isMetaMask |-> FALSE, request |-> "stub",
     on |-> "noop", removeListener |-> "noop"]

\* window.ethereum before the module runs.
InitialEthereum(e) ==
    CASE ~e.hasWindow -> Undefined
      [] e.provider = "absent" -> Undefined
      [] e.provider = "throws" -> [type |-> "throwingAccessor"]
      [] e.provider = "object" -> ProviderObject(e.request)

InfoInstalled ==
    [level |-> "info",
     msg |-> "[meta-stub] Installed safe window.ethereum stub (no MetaMask detected)."]

WarnSetupFailed(step) ==
    [level |-> "warn", msg |-> "[meta-stub] Failed to setup MetaMask stub:", err |-> step]

\* The body of the try block of setupMetaMaskStub, statement by statement: the
\* slot after it, what it logged, and the statement that raised ("none" if none).
SetupBody(e, slot) ==
    IF e.provider = "throws"
    THEN [ethereum |-> slot, log |-> <<>>, threw |-> "read window.ethereum"]
    ELSE IF ~Truthy(slot)
    THEN IF e.writable
         THEN [ethereum |-> StubObject, log |-> << InfoInstalled >>, threw |-> "none"]
         ELSE [ethereum |-> slot, log |-> <<>>, threw |-> "assign window.ethereum"]
    ELSE IF slot.request # "none"
    THEN IF slot.request = "notFunction"
         THEN [ethereum |-> slot, log |-> <<>>, threw |-> "bind request"]
         ELSE IF e.writable
         THEN [ethereum |-> [slot EXCEPT !.request = "wrapper"], log |-> <<>>,
               threw |-> "none"]
         ELSE [ethereum |-> slot, log |-> <<>>, threw |-> "assign request"]
    ELSE [ethereum |-> slot, log |-> <<>>, threw |-> "none"]

\* Mutant of setupMetaMaskStub: the installation without its try/catch.
setupMetaMaskStubNoCatch(e, slot) ==
    IF ~e.hasWindow
    THEN [ethereum |-> slot, log |-> <<>>, raised |-> FALSE]
    ELSE LET r == SetupBody(e, slot)
         IN  [ethereum |-> r.ethereum, log |-> r.log, raised |-> r.threw # "none"]

\* setupMetaMaskStub: the early return without a window, then the try block and
\* its catch, which logs the failure and swallows it.
setupMetaMaskStub(e, slot) ==
    IF ~e.hasWindow
    THEN [ethereum |-> slot, log |-> <<>>, raised |-> FALSE]
    ELSE LET r == SetupBody(e, slot)
         IN  IF r.threw = "none"
             THEN [ethereum |-> r.ethereum, log |-> r.log, raised |-> FALSE]
             ELSE [ethereum |-> r.ethereum,
                   log |-> Append(r.log, WarnSetupFailed(r.threw)),
                   raised |-> FALSE]

\* One invocation of a request function: how its promise (or the call) ended,
\* the value, the warnings it logged, the bundles it passed to the provider.
CallResult(o, v, w, p) == [outcome |-> o, value |-> v, warns |-> w, passed |-> p]

\* The provider's own request.
originalRequest(e, args) ==
    CASE e.behaviour[args] = "returns" -> CallResult("resolved", ProviderValue(args), 0, << args >>)
      [] e.behaviour[args] = "throws" -> CallResult("threw", Undefined, 0, << args >>)
      [] e.behaviour[args] = "rejects" -> CallResult("rejected", Undefined, 0, << args >>)

\* Mutant of StubRequest: no special case for the account-request method.
StubRequestNoAccounts(args) == CallResult("resolved", JSNull, 1, <<>>)

\* The stub's request: warns, then returns the fallback.
StubRequest(args) == CallResult("resolved", Fallback(args), 1, <<>>)

\* Mutant of WrappedRequest: `return originalRequest(args)` without await, so only a
\* synchronous raise is caught and a rejection passes through.
WrappedRequestNoAwait(e, args) ==
    LET r == originalRequest(e, args)
    IN  IF r.outcome = "threw"
        THEN CallResult("resolved", Fallback(args), r.warns + 1, r.passed)
        ELSE r

\* Mutant of WrappedRequest: the wrapper calls originalRequest() without handing
\* its argument bundle on.
WrappedRequestDropsArgs(e, args) ==
    LET r == originalRequest(e, Undefined)
    IN  IF r.outcome = "resolved"
        THEN r
        ELSE CallResult("resolved", Fallback(args), r.warns + 1, r.passed)

\* The wrapper: try { return await originalRequest(args) } catch { warn; fallback }.
\* The await turns a rejection into an exception inside the try block.
WrappedRequest(e, args) ==
    LET r == originalRequest(e, args)
    IN  IF r.outcome = "resolved"
        THEN r
        ELSE CallResult("resolved", Fallback(args), r.warns + 1, r.passed)

\* window.ethereum.request(args), whichever function the slot now holds.
CallRequest(e, slot, args) ==
    CASE slot.request = "stub" -> StubRequest(args)
      [] slot.request = "wrapper" -> WrappedRequest(e, args)
      [] slot.request = "function" -> originalRequest(e, args)

-----------------------------------------------------------------------------
(* Initial state and actions *)

GroupOrder == << "items", "tools", "cat", "chai", "harvest" >>

\* The tiles in a fixed order: the first tile of each group, then the second, ...
RECURSIVE TileOrderFrom(_, _)
TileOrderFrom(i, g) ==
    IF g > Len(GroupOrder)
    THEN IF \E t \in Tiles : t.idx > i THEN TileOrderFrom(i + 1, 1) ELSE <<>>
    ELSE LET t == [group |-> GroupOrder[g], idx |-> i]
         IN  (IF t \in Tiles THEN << t >> ELSE <<>>) \o TileOrderFrom(i, g + 1)

TileOrder == TileOrderFrom(0, 1)

\* The sets of tiles whose image fails to resolve: the first k tiles of TileOrder,
\* for every k up to MaxBroken.
BrokenSets ==
    { { TileOrder[j] : j \in 1..k } : k \in { n \in 0..MaxBroken : n <= Len(TileOrder) } }

NoCall == [outcome |-> "none"]
NoEvent == [type |-> "none"]

Init ==
    /\ loaded = FALSE
    /\ env \in Envs
    /\ ethereum = InitialEthereum(env)
    /\ console = <<>>
    /\ setupRaised = FALSE
    /\ lastCall = NoCall
    /\ fullscreenImage = JSNull
    /\ broken \in BrokenSets
    /\ imgSrc = [t \in Tiles |-> FileSrc(t)]
    /\ lastEvent = NoEvent

\* The module body: `if (typeof window !== "undefined") setupMetaMaskStub();`,
\* after which App is exported and mounted. A raise here would abort the module.
LoadModule ==
    /\ ~loaded
    /\ ~setupRaised
    /\ LET r == setupMetaMaskStub(env, ethereum)
       IN  /\ ethereum' = r.ethereum
           /\ console' = r.log
           /\ setupRaised' = r.raised
           /\ loaded' = ~r.raised
    /\ UNCHANGED <<env, lastCall>>
    /\ UNCHANGED galleryVars

\* Some script of the page calls window.ethereum.request(args).
Request(args) ==
    /\ loaded
    /\ env.hasWindow
    /\ ethereum.type = "object"
    /\ ethereum.request \in {"stub", "wrapper", "function"}
    /\ lastCall' = [args |-> args] @@ CallRequest(env, ethereum, args)
    /\ UNCHANGED <<loaded, env, ethereum, console, setupRaised>>
    /\ UNCHANGED galleryVars

\* A click event on `target`: the handlers on its propagation path run, then the
\* queued state updates are applied and App re-renders.
ClickEvent(target) ==
    LET d == Dispatch(target)
        after == Reduce(fullscreenImage, d.updates)
        rerender == Rerenders(fullscreenImage, d.updates)
    IN  /\ fullscreenImage' = after
        /\ imgSrc' = IF rerender THEN Remount(imgSrc) ELSE imgSrc
        /\ lastEvent' = [type |-> "click", target |-> target,
                         before |-> fullscreenImage, handlers |-> d.handlers,
                         updates |-> d.updates, after |-> after,
                         renders |-> IF rerender THEN 1 ELSE 0]
        /\ UNCHANGED <<loaded, broken>>
        /\ UNCHANGED shimVars

\* The user clicks: the event's target is the topmost element under the pointer.
PointerClick ==
    /\ loaded
    /\ env.hasWindow
    /\ \E target \in HitTargets(fullscreenImage) : ClickEvent(target)

\* A click dispatched by script (element.click(), a test's fireEvent) on any
\* element of the document, whatever lies over it.
DispatchClick ==
    /\ loaded
    /\ env.hasWindow
    /\ \E target \in Mounted(fullscreenImage) : ClickEvent(target)

\* The image of tile t fails to load and its onError handler runs.
ImageError(t) ==
    /\ loaded
    /\ env.hasWindow
    /\ t \in broken
    /\ imgSrc[t].kind = "file"
    /\ imgSrc' = OnErrorSrc(imgSrc, t)
    /\ UNCHANGED <<loaded, fullscreenImage, broken, lastEvent>>
    /\ UNCHANGED shimVars

GalleryInit == env = GalleryEnv /\ Init

ShimInit == broken = {} /\ Init

Next == LoadModule \/ PointerClick \/ (\E t \in Tiles : ImageError(t))

DispatchNext == Next \/ DispatchClick

ShimNext == LoadModule \/ (\E args \in ArgBundles : Request(args))

\* The page under pointer input.
Spec == GalleryInit /\ [][Next]_vars

\* The page when clicks may also be dispatched by script.
DispatchSpec == GalleryInit /\ [][DispatchNext]_vars

\* The shim in every environment, and the calls made through it.
ShimSpec == ShimInit /\ [][ShimNext]_vars

-----------------------------------------------------------------------------
(* Properties *)

IsClick == lastEvent.type = "click"

\* The selection shows exactly tile t: t's image path and t's caption.
Shows(sel, t) ==
    /\ sel # JSNull
    /\ "image" \in DOMAIN sel /\ "caption" \in DOMAIN sel
    /\ sel.image = TileSrc(t)
    /\ sel.caption = TileCaption(t)

\* C1: a click on a tile while the selection is Idle leaves the selection Viewing
\* that tile's image path and caption, and those of no other tile.
C1_IdleTileClickSelectsTile ==
    (IsClick /\ lastEvent.target \in TileElements /\ lastEvent.before = JSNull) =>
        /\ fullscreenImage = lastEvent.after
        /\ Shows(fullscreenImage, lastEvent.target.tile)
        /\ \A u \in Tiles \ {lastEvent.target.tile} : ~Shows(fullscreenImage, u)

C1_Witness ==
    /\ IsClick /\ lastEvent.target \in TileElements /\ lastEvent.before = JSNull
    /\ lastEvent.target.tile = [group |-> "chai", idx |-> 6]
    /\ fullscreenImage.image = "images/Chai Mahal/w7.png"

\* C2: while Viewing, a click on the enlarged image leaves the selection as it was
\* and never reaches the backdrop's handler; a click on the backdrop or on the
\* close control sets the selection to Idle.
C2_ImageClickContained ==
    (IsClick /\ lastEvent.before # JSNull) =>
        /\ lastEvent.target = OverlayImage =>
              /\ fullscreenImage = lastEvent.before
              /\ lastEvent.handlers = << "image" >>
              /\ lastEvent.updates = <<>>
        /\ lastEvent.target \in {Backdrop, CloseButton} => fullscreenImage = JSNull

C2_Witness ==
    /\ IsClick /\ lastEvent.target = OverlayImage
    /\ lastEvent.before # JSNull /\ fullscreenImage = lastEvent.before

\* How many times the selection enters Idle while the updates of one event are
\* applied in order to the state `before`.
IdleEntries(before, updates) ==
    Cardinality({ i \in 1..Len(updates) :
                    /\ updates[i] = JSNull
                    /\ (IF i = 1 THEN before ELSE updates[i - 1]) # JSNull })

\* C3: after any sequence of tile clicks, a dismiss action (backdrop click or
\* close-control click) takes the selection to Idle exactly once, in one render;
\* the close control's click runs the button's handler and then the backdrop's,
\* and the second, applied to a selection already Idle, changes nothing; the same
\* updates applied to an Idle selection leave it Idle without a render.
C3_DismissOnce ==
    (IsClick /\ lastEvent.target \in {Backdrop, CloseButton}) =>
        /\ lastEvent.before # JSNull
        /\ fullscreenImage = JSNull
        /\ IdleEntries(lastEvent.before, lastEvent.updates) = 1
        /\ lastEvent.renders = 1
        /\ lastEvent.target = CloseButton =>
              /\ lastEvent.handlers = << "closeButton", "backdrop" >>
              /\ lastEvent.updates = << JSNull, JSNull >>
        /\ Reduce(JSNull, lastEvent.updates) = JSNull
        /\ ~Rerenders(JSNull, lastEvent.updates)

C3_Witness ==
    /\ IsClick /\ lastEvent.target = CloseButton
    /\ lastEvent.before # JSNull /\ "id" \notin DOMAIN lastEvent.before
    /\ fullscreenImage = JSNull

\* C8: a tile click that follows the click of a different tile, with no dismiss
\* between them, leaves the selection equal to the second tile's item: its path,
\* its caption, and no field of the first.
C8_LastClickWins ==
    (/\ IsClick /\ lastEvent.target \in TileElements
     /\ lastEvent.before # JSNull
     /\ ~Shows(lastEvent.before, lastEvent.target.tile)) =>
        /\ Shows(fullscreenImage, lastEvent.target.tile)
        /\ fullscreenImage = TileClickValue(lastEvent.target.tile)
        /\ fullscreenImage.image # lastEvent.before.image
        /\ "id" \in DOMAIN fullscreenImage <=> lastEvent.target.tile.group = "items"

C8_Witness ==
    /\ IsClick /\ lastEvent.target \in TileElements
    /\ lastEvent.before # JSNull
    /\ Shows(lastEvent.before, [group |-> "items", idx |-> 0])
    /\ Shows(fullscreenImage, [group |-> "tools", idx |-> 1])

\* C9: while Viewing, a pointer click reaches only elements of the overlay: no
\* tile handler runs, and the selection either stays or becomes Idle through the
\* backdrop's handler.
C9_OverlayCapturesPointer ==
    (IsClick /\ lastEvent.before # JSNull) =>
        /\ lastEvent.target \in OverlayElements
        /\ \A i \in 1..Len(lastEvent.handlers) :
              lastEvent.handlers[i] \in {"backdrop", "closeButton", "image"}
        /\ fullscreenImage \in {lastEvent.before, JSNull}
        /\ fullscreenImage = JSNull =>
              lastEvent.handlers[Len(lastEvent.handlers)] = "backdrop"

C9_Witness ==
    /\ IsClick /\ lastEvent.before # JSNull
    /\ lastEvent.target = CaptionP
    /\ fullscreenImage = JSNull

\* C10: the selection is Idle before anything happens, and at all times it is
\* either Idle or one record that shows exactly one tile of the catalogue.
C10_SelectionIsOneTileOrIdle ==
    /\ (~loaded \/ lastEvent = NoEvent) => fullscreenImage = JSNull
    /\ \/ fullscreenImage = JSNull
       \/ Cardinality({ t \in Tiles : Shows(fullscreenImage, t) }) = 1

C10_Witness ==
    /\ IsClick /\ lastEvent.before # JSNull /\ fullscreenImage # JSNull
    /\ \E t \in broken : imgSrc[t].kind = "svg"
    /\ Cardinality({ t \in Tiles : Shows(fullscreenImage, t) }) = 1

\* The placeholder's text carries the label of the tile's item: "Image <id>" for
\* a catalogue item, and for a tile of the other groups the label its alt text
\* numbers ("Cat in a Box" of "Cat in a Box 3").
CarriesLabel(src, t) ==
    /\ src.kind = "svg"
    /\ IF t.group = "items"
       THEN src.text = "Image " \o ToString(Entry(t).id)
       ELSE src.text \o " " \o ToString(t.idx + 1) = TileAlt(t)

HasCall == lastCall.outcome # "none"

\* C4: with no provider at load, the shim installs the stub, and every call of
\* the installed request resolves: to an empty sequence for the method
\* "eth_requestAccounts", to null for any other method or no bundle at all.
C4_StubFallbacks ==
    (loaded /\ env.hasWindow /\ env.provider = "absent" /\ env.writable) =>
        /\ ethereum = StubObject
        /\ HasCall =>
              /\ lastCall.outcome = "resolved"
              /\ lastCall.value =
                    (IF lastCall.args = AccountsRequest THEN EmptyArray ELSE JSNull)

C4_Witness ==
    /\ env.provider = "absent" /\ ethereum = StubObject
    /\ HasCall /\ lastCall.args = AccountsRequest /\ lastCall.value = EmptyArray

\* C5: once the shim has wrapped a provider's request, a call for which the
\* provider raises or rejects resolves to the fallback (empty sequence for
\* "eth_requestAccounts", null otherwise) and logs exactly one warning.
C5_WrapperSwallowsFailure ==
    (/\ HasCall /\ ethereum.type = "object" /\ ethereum.request = "wrapper"
     /\ env.behaviour[lastCall.args] \in {"throws", "rejects"}) =>
        /\ lastCall.outcome = "resolved"
        /\ lastCall.value =
              (IF lastCall.args = AccountsRequest THEN EmptyArray ELSE JSNull)
        /\ lastCall.warns = 1

C5_Witness ==
    /\ HasCall /\ ethereum.request = "wrapper"
    /\ env.behaviour[lastCall.args] = "rejects"
    /\ lastCall.args = ChainIdRequest
    /\ lastCall.outcome = "resolved" /\ lastCall.value = JSNull

\* A statement of the installation fails in environment e.
InstallationFails(e) ==
    /\ e.hasWindow
    /\ \/ e.provider = "throws"
       \/ e.provider = "absent" /\ ~e.writable
       \/ e.provider = "object" /\ e.request = "notFunction"
       \/ e.provider = "object" /\ e.request = "function" /\ ~e.writable

\* C6: setupMetaMaskStub never raises to the module body; when a statement of the
\* installation fails, exactly one warning is logged for it, and module load
\* completes all the same.
C6_SetupNeverRaises ==
    /\ ~setupRaised
    /\ (loaded /\ InstallationFails(env)) =>
          /\ Len(console) = 1
          /\ console[1].level = "warn"
          /\ console[1].msg = "[meta-stub] Failed to setup MetaMask stub:"
    /\ (loaded /\ ~InstallationFails(env)) =>
          \A i \in 1..Len(console) : console[i].level # "warn"
    /\ ENABLED LoadModule \/ loaded

C6_Witness ==
    /\ loaded /\ ~setupRaised
    /\ env.provider = "object" /\ env.request = "function" /\ ~env.writable
    /\ console = << WarnSetupFailed("assign request") >>

\* C11: with a provider present and wrapped, a call whose argument bundle the
\* provider's own request answers without raising reaches the provider exactly
\* once with that same bundle, resolves to the provider's value, and logs no
\* warning; the rest of the provider object is as it was, and the installation
\* logged nothing.
C11_WrapperTransparentOnSuccess ==
    (/\ HasCall /\ ethereum.type = "object" /\ ethereum.request = "wrapper"
     /\ env.behaviour[lastCall.args] = "returns") =>
        /\ lastCall.outcome = "resolved"
        /\ lastCall.passed = << lastCall.args >>
        /\ lastCall.value = ProviderValue(lastCall.args)
        /\ lastCall.warns = 0
        /\ ethereum = [ProviderObject("function") EXCEPT !.request = "wrapper"]
        /\ console = <<>>

C11_Witness ==
    /\ HasCall /\ ethereum.type = "object" /\ ethereum.request = "wrapper"
    /\ env.behaviour[AccountsRequest] = "returns"
    /\ env.behaviour[Undefined] = "rejects"
    /\ lastCall.args = AccountsRequest
    /\ lastCall.passed = << AccountsRequest >>
    /\ lastCall.value = [type |-> "array", elems |-> << "0xA11CE" >>]
    /\ lastCall.warns = 0

====
